---- MODULE Spec2Model ----
(***************************************************************************)
(* Data-ingestion core of githubdownfall.com: the SQLite-backed cache      *)
(* (`cached`, both variants of db.ts), the live sync (`sync`), the         *)
(* incidents table and its upserts, the backfill scraper (scrape.ts), the  *)
(* heatmap aggregator (`heatmap`) and the status deriver (`statusInfo`).   *)
(***************************************************************************)
EXTENDS Integers, Sequences, FiniteSets, TLC

VARIABLES
  variant,    \* which db.ts is linked: "swr" (background refresh) or "blocking"
  now,        \* Date.now()
  ticks,      \* number of clock advances so far (bounds the run)
  cache,      \* the cache table: a set of rows [key, value, fetched_at]
  calls,      \* the invocations of cached() in progress: call slot -> call record
  last,       \* the record of the invocation of cached() that completed last
  incidents,  \* the incidents table: a set of rows of nine columns
  sync,       \* the invocation of sync() in progress, or the one that ended last
  upserts,    \* the incidents handed to the insert statements so far, in order
  scraper,    \* the run of the backfill script scrape.ts
  render      \* the rendering of the page: the clock, heatmap() and statusInfo()

vars == <<variant, now, ticks, cache, calls, last, incidents, sync, upserts, scraper,
          render>>

(***************************************************************************)
(* Bounds of the model.                                                    *)
(***************************************************************************)
MaxTicks == 3
MaxCalls == 2
MaxSyncs == 2
MaxUpserts == 4
MaxPages == 2
MaxDays == 6
MaxWindows == 1

(***************************************************************************)
(* JSON values and texts.  A JSON value is named by a string; its          *)
(* serialisation is a different string, and a text that serialises no     *)
(* value (an HTML error page) does not parse.                              *)
(***************************************************************************)
Null == "null"
ErrBody == "E"            \* the JSON body of an error answer, e.g. {"error": ...}
Html == "<html>"          \* a body that is not JSON

Keys == {"status", "unresolved", "incidents"}

Payloads(k) ==
  CASE k = "status"     -> {"S1", "S2"}
    [] k = "unresolved" -> {"U1"}
    [] k = "incidents"  -> {"I1", "I2"}
    [] OTHER            -> {}

JSONValues == UNION {Payloads(k) : k \in Keys} \cup {ErrBody}

JSONstringify(v) == "json:" \o v

IsJSON(text) == \E v \in JSONValues : JSONstringify(v) = text

JSONparse(text) == CHOOSE v \in JSONValues : JSONstringify(v) = text

(***************************************************************************)
(* Upstream answers of a live endpoint: a network error, or an HTTP        *)
(* response with a success flag and a body.                                *)
(***************************************************************************)
NetErr == [kind |-> "neterr", ok |-> FALSE, body |-> ""]

Responses(k) ==
  {NetErr}
    \cup {[kind |-> "http", ok |-> TRUE, body |-> JSONstringify(p)] : p \in Payloads(k)}
    \cup {[kind |-> "http", ok |-> FALSE, body |-> b] : b \in {JSONstringify(ErrBody), Html}}

Resolved(v) == [state |-> "resolved", data |-> v]
Rejected == [state |-> "rejected", data |-> Null]

\* const toJSON = (r: Response) => r.json(): parses the body whatever the status.
toJSON(r) == IF IsJSON(r.body) THEN Resolved(JSONparse(r.body)) ELSE Rejected

\* () => fetch(url).then(toJSON): fetch rejects on a network error only.
FetchFn(r) == IF r.kind = "neterr" THEN Rejected ELSE toJSON(r)

(***************************************************************************)
(* The cache table.                                                        *)
(***************************************************************************)
TTL == 60000

NoRow == [key |-> "", value |-> "", fetched_at |-> 0 - 1]

\* SELECT value, fetched_at FROM cache WHERE key = ?
getCache(tbl, key) ==
  IF \E r \in tbl : r.key = key
    THEN CHOOSE r \in tbl : r.key = key
    ELSE NoRow

\* INSERT OR REPLACE INTO cache (key, value, fetched_at), key the primary key
setCache(tbl, key, value, at) ==
  {r \in tbl : r.key # key} \cup {[key |-> key, value |-> value, fetched_at |-> at]}

\* Mutant: the freshness window is one millisecond short.
FreshShort(row, t) == row # NoRow /\ t - row.fetched_at < TTL - 1

\* row && Date.now() - row.fetched_at < TTL
Fresh(row, t) == row # NoRow /\ t - row.fetched_at < TTL

(***************************************************************************)
(* A call of cached(key, fn).                                              *)
(*   hadRow   whether getCache returned a row at the start of the call     *)
(*   value    row.value of that row, the only field read after the start   *)
(*   within   the call was made less than TTL after the row's fetched_at   *)
(*   fetch    "none" (fn not invoked), "pending", "resolved", "rejected"   *)
(*   http     the answer fn's fetch got: "none", "neterr", "ok", "notok"   *)
(*   pc       "idle", "await" (suspended on the fetch), "returned", "threw"*)
(*   ret      the value the call resolved to                               *)
(*   wfail    setCache.run threw in this call                              *)
(*   data     the value fn() resolved with, once it has (NoData before)    *)
(***************************************************************************)
NoData == ""

IdleCall ==
  [key |-> "", hadRow |-> FALSE, value |-> "", within |-> FALSE, fetch |-> "none",
   http |-> "none", pc |-> "idle", ret |-> Null, wfail |-> FALSE, data |-> NoData]

\* The record of a call that has just read `row` at time t.
Entered(k, row, t) ==
  [IdleCall EXCEPT !.key = k, !.hadRow = (row # NoRow), !.value = row.value,
                   !.within = (row # NoRow /\ t < row.fetched_at + TTL)]

HttpClass(r) == IF r.kind = "neterr" THEN "neterr" ELSE IF r.ok THEN "ok" ELSE "notok"

\* return JSON.parse(text) as T: throws on a text that is not JSON
ReturnParsed(call, text) ==
  IF IsJSON(text)
    THEN [call EXCEPT !.pc = "returned", !.ret = JSONparse(text)]
    ELSE [call EXCEPT !.pc = "threw"]

\* Mutant: the caller awaits the refresh whenever the entry is not fresh.
SwrEnterAwaitStale(k, tbl, t) ==
  LET row == getCache(tbl, k)
      call == Entered(k, row, t)
  IN  IF Fresh(row, t)
        THEN ReturnParsed(call, row.value)
        ELSE [call EXCEPT !.fetch = "pending", !.pc = "await"]

\* cached(), background-refresh variant, up to its first suspension.
SwrEnter(k, tbl, t) ==
  LET row == getCache(tbl, k)
      call == Entered(k, row, t)
  IN  IF Fresh(row, t)
        THEN ReturnParsed(call, row.value)
        ELSE IF row = NoRow
          THEN [call EXCEPT !.fetch = "pending", !.pc = "await"]
          ELSE ReturnParsed([call EXCEPT !.fetch = "pending"], row.value)

\* Mutant: a refresh seeds a missing entry and leaves an entry there is alone.
SwrRefreshSeedOnly(tbl, k, out, t) ==
  IF out.state = "resolved" /\ getCache(tbl, k) = NoRow
    THEN setCache(tbl, k, JSONstringify(out.data), t)
    ELSE tbl

\* Mutant: a refresh does not replace an entry that is fresh by then.
SwrRefreshKeepFresh(tbl, k, out, t) ==
  IF out.state = "resolved" /\ ~Fresh(getCache(tbl, k), t)
    THEN setCache(tbl, k, JSONstringify(out.data), t)
    ELSE tbl

\* Mutant: a failed refresh invalidates the entry.
SwrRefreshInvalidate(tbl, k, out, t) ==
  IF out.state = "resolved"
    THEN setCache(tbl, k, JSONstringify(out.data), t)
    ELSE {r \in tbl : r.key # k}

\* fn().then((data) => setCache.run(key, JSON.stringify(data), Date.now())).catch(() => {})
SwrRefreshTable(tbl, k, out, t) ==
  IF out.state = "resolved"
    THEN setCache(tbl, k, JSONstringify(out.data), t)
    ELSE tbl

\* Mutant: no seeded row after the awaited refresh is an error.
SwrResumeThrow(call, tbl) ==
  LET seeded == getCache(tbl, call.key)
  IN  IF seeded # NoRow
        THEN ReturnParsed(call, seeded.value)
        ELSE [call EXCEPT !.pc = "threw"]

\* await refresh; const seeded = getCache.get(key); return seeded ? JSON.parse(seeded.value) : null
SwrResume(call, tbl) ==
  LET seeded == getCache(tbl, call.key)
  IN  IF seeded # NoRow
        THEN ReturnParsed(call, seeded.value)
        ELSE [call EXCEPT !.pc = "returned", !.ret = Null]

\* cached(), blocking-refresh variant, up to its first suspension.
BlockingEnter(k, tbl, t) ==
  LET row == getCache(tbl, k)
      call == Entered(k, row, t)
  IN  IF Fresh(row, t)
        THEN ReturnParsed(call, row.value)
        ELSE [call EXCEPT !.fetch = "pending", !.pc = "await"]

\* try { const data = await fn(); setCache.run(...); return data }
BlockingTable(tbl, k, out, t) ==
  IF out.state = "resolved"
    THEN setCache(tbl, k, JSONstringify(out.data), t)
    ELSE tbl

\* Mutant: the catch block gives up the stale row.
BlockingCatchNull(call) == [call EXCEPT !.pc = "returned", !.ret = Null]

\* ... catch { return row ? JSON.parse(row.value) as T : null }
BlockingCatch(call) ==
  IF call.hadRow
    THEN ReturnParsed(call, call.value)
    ELSE [call EXCEPT !.pc = "returned", !.ret = Null]

BlockingResume(call, out) ==
  IF out.state = "resolved"
    THEN [call EXCEPT !.pc = "returned", !.ret = out.data]
    ELSE BlockingCatch(call)

CachedEnter(k, tbl, t) ==
  IF variant = "swr" THEN SwrEnter(k, tbl, t) ELSE BlockingEnter(k, tbl, t)

(***************************************************************************)
(* Incidents.  An upstream incident object carries the nine stored fields  *)
(* and others (here page_id); a row of the table has the nine columns.     *)
(***************************************************************************)
Ids == {"x", "y"}
Revs == {"a", "b"}

\* Incident id as the status feed reports it in revision rev: "a" while the
\* incident is open, "b" once it is resolved.
Incident(id, rev) ==
  [id |-> id,
   name |-> IF rev = "a" THEN "degraded " \o id ELSE "incident with " \o id,
   status |-> IF rev = "a" THEN "investigating" ELSE "resolved",
   created_at |-> "created " \o id,
   updated_at |-> "updated " \o rev,
   resolved_at |-> IF rev = "a" THEN Null ELSE "resolved " \o id,
   impact |-> IF rev = "a" THEN "minor" ELSE "major",
   shortlink |-> "https://stspg.io/" \o id,
   started_at |-> "started " \o id,
   page_id |-> "kctbh9vrtdwd"]

Incidents == {Incident(id, rev) : id \in Ids, rev \in Revs}

\* The nine values bound by insert.run(incident.id, incident.name, ...).
Row(incident) ==
  [id |-> incident.id, name |-> incident.name, status |-> incident.status,
   created_at |-> incident.created_at, updated_at |-> incident.updated_at,
   resolved_at |-> incident.resolved_at, impact |-> incident.impact,
   shortlink |-> incident.shortlink, started_at |-> incident.started_at]

\* Mutant: the replace keeps the stored resolved_at when the new one is null.
insertMerge(tbl, incident) ==
  LET old == {r \in tbl : r.id = incident.id}
      new == Row(incident)
  IN  (tbl \ old) \cup
        {IF old # {} /\ new.resolved_at = Null
           THEN [new EXCEPT !.resolved_at = (CHOOSE r \in old : TRUE).resolved_at]
           ELSE new}

\* INSERT OR REPLACE INTO incidents (id, ...) VALUES (?, ...), id the primary key
insert(tbl, incident) ==
  {r \in tbl : r.id # incident.id} \cup {Row(incident)}

\* Mutant: the scraper's statement as INSERT OR IGNORE, which keeps a stored row.
insertScrapeIgnore(tbl, incident) ==
  IF \E r \in tbl : r.id = incident.id THEN tbl ELSE tbl \cup {Row(incident)}

\* scrape.ts: INSERT OR REPLACE INTO incidents (id, ...) VALUES (?, ...)
insertScrape(tbl, incident) ==
  {r \in tbl : r.id # incident.id} \cup {Row(incident)}

RECURSIVE insertAll(_, _)
\* for (const incident of list) insert.run(...)
insertAll(tbl, list) ==
  IF list = <<>> THEN tbl ELSE insertAll(insert(tbl, Head(list)), Tail(list))

\* result.incidents of a payload of the recent-incidents endpoint
IncidentsOf(v) ==
  CASE v = "I1" -> <<Incident("x", "a")>>
    [] v = "I2" -> <<Incident("y", "a"), Incident("x", "b")>>
    [] OTHER    -> <<>>

\* Whether the JSON value has an `incidents` member to iterate.
HasIncidents(v) == v \in Payloads("incidents")

(***************************************************************************)
(* sync(): three cached() calls under Promise.all, then the upserts.       *)
(*   pc     "idle", "waiting" (on Promise.all), "done", "threw"            *)
(*   n      the number of invocations so far                               *)
(*   wrote  the rows this invocation passed to insert.run                  *)
(*   failed insert.run threw in this invocation                            *)
(***************************************************************************)
IdleSync ==
  [pc |-> "idle", n |-> 0, status |-> Null, unresolved |-> Null, result |-> Null,
   wrote |-> <<>>, failed |-> FALSE]

SyncKeys == <<"status", "unresolved", "incidents">>

\* Mutant: without a live status the incidents are not stored.
syncIncidentsNeedStatus(status, unresolved, result) ==
  IF result # Null /\ status # Null THEN IncidentsOf(result) ELSE <<>>

\* if (result) { for (const incident of result.incidents) insert.run(...) }
syncIncidents(status, unresolved, result) ==
  IF result # Null THEN IncidentsOf(result) ELSE <<>>

\* if (result) with a value that has no `incidents`: for...of throws a TypeError
syncThrows(result) == result # Null /\ ~HasIncidents(result)

(***************************************************************************)
(* The backfill script scrape.ts.                                          *)
(*   pc        "idle" (not run), "page" (awaiting the body of a history    *)
(*             page), "batch" (awaiting Promise.all of a batch), "done",   *)
(*             "crashed" (an exception ended the script)                   *)
(*   page      index in PAGES of the page awaited                          *)
(*   existing  the ids read from the table at the start                    *)
(*   codes     the codes collected                                         *)
(*   i         the offset of the batch loop                                *)
(*   results   per fetch of the batch: "pending", "null", "incident" (the  *)
(*             incident object of the code) or "alias" (an incident object *)
(*             whose id is not the code asked for)                         *)
(*   inserted  the counter of rows inserted                                *)
(*   listed    the codes seen in months of a year from the cutoff on       *)
(*   fetched   the codes fetchIncident was called with, in order           *)
(*   store0    the incidents table as the script found it                  *)
(*   seen      the bodies of the history pages read, in order              *)
(*   got       the settled batches' results, as pairs <<code, result>>     *)
(*   run       1 for the first run of the script, 2 for the rerun          *)
(*   prev      of the run before: the page bodies it read, the results it  *)
(*             got and the codes it fetched                                *)
(***************************************************************************)
CUTOFF_YEAR == 2025
BATCH == 5

\* const PAGES = [1, 2, 3, 4, 5], cut to MaxPages pages
PAGES == [p \in 1..MaxPages |-> p]

Codes == {"A", "B", "C", "D", "E", "F", "G"}

HistoryMonth(year, codes) == [year |-> year, incidents |-> codes]

\* The listings a history page may embed.
Listings ==
  {<<HistoryMonth(2025, <<"A", "B", "A", "C">>)>>,
   <<HistoryMonth(2026, <<"D", "E">>), HistoryMonth(2025, <<"F", "G", "A">>)>>,
   <<HistoryMonth(2025, <<"C">>), HistoryMonth(2024, <<"D", "B">>)>>}

\* What the fetch of a history page yields: a network error, or a body: with
\* no embedded listing, with a listing that is not JSON, or with a listing.
PageAnswers ==
  {[kind |-> k, months |-> <<>>] : k \in {"neterr", "nolisting", "malformed"}}
    \cup {[kind |-> "listing", months |-> l] : l \in Listings}

\* parseMonths(html): [] without a match, JSON.parse of the match otherwise.
parseMonths(html) ==
  IF html.kind = "nolisting" THEN [threw |-> FALSE, months |-> <<>>]
  ELSE IF html.kind = "malformed" THEN [threw |-> TRUE, months |-> <<>>]
  ELSE [threw |-> FALSE, months |-> html.months]

\* Mutant: the table is read as holding no incident.
StoredIdsNone(tbl) == {}

\* The ids the incidents table holds.
StoredIds(tbl) == {r.id : r \in tbl}

RECURSIVE pushCodes(_, _, _)
\* for (const incident of month.incidents) if (!existing.has(incident.code)) codes.push(...)
pushCodes(codes, list, existing) ==
  IF list = <<>> THEN codes
  ELSE pushCodes(IF Head(list) \notin existing THEN Append(codes, Head(list)) ELSE codes,
                 Tail(list), existing)

\* Mutant: the month of the cutoff year itself is skipped.
qualifiesAfter(month) == ~(month.year <= CUTOFF_YEAR)

\* if (month.year < CUTOFF_YEAR) continue
qualifies(month) == ~(month.year < CUTOFF_YEAR)

RECURSIVE collect(_, _, _)
\* for (const month of months) { ... }
collect(codes, months, existing) ==
  IF months = <<>> THEN codes
  ELSE collect(IF qualifies(Head(months))
                 THEN pushCodes(codes, Head(months).incidents, existing)
                 ELSE codes,
               Tail(months), existing)

RECURSIVE dedup(_, _)
\* [...new Set(codes)]: the first occurrence of each code, in order
dedup(codes, seen) ==
  IF codes = <<>> THEN <<>>
  ELSE IF Head(codes) \in seen THEN dedup(Tail(codes), seen)
  ELSE <<Head(codes)>> \o dedup(Tail(codes), seen \cup {Head(codes)})

\* Mutant: the batch is one code wider than BATCH.
sliceWide(codes, i) ==
  SubSeq(codes, i + 1, IF i + BATCH + 1 < Len(codes) THEN i + BATCH + 1 ELSE Len(codes))

\* codes.slice(i, i + BATCH), i counted from 0
slice(codes, i) ==
  SubSeq(codes, i + 1, IF i + BATCH < Len(codes) THEN i + BATCH ELSE Len(codes))

\* What the details endpoint answers for a code.
DetailAnswers == {"ok", "okalias", "notok", "unparsable", "neterr"}

\* fetchIncident(code): null on a non-success response, data.incident otherwise;
\* a network error or a body that is not JSON rejects.
fetchIncident(answer) ==
  CASE answer = "notok"      -> "null"
    [] answer = "ok"         -> "incident"
    [] answer = "okalias"    -> "alias"
    [] answer = "unparsable" -> "rejected"
    [] answer = "neterr"     -> "rejected"

\* The incident object the details endpoint returns for a code.
Detail(code) == Incident(code, "b")

\* An incident object the details endpoint returns under an id other than the code.
Alias(code) == Incident("id-" \o code, "b")

IdleScraper ==
  [pc |-> "idle", page |-> 0, existing |-> {}, codes |-> <<>>, i |-> 0,
   results |-> <<>>, inserted |-> 0, listed |-> {}, fetched |-> <<>>, store0 |-> {},
   seen |-> <<>>, got |-> {}, run |-> 1,
   prev |-> [seen |-> <<>>, got |-> {}, fetched |-> <<>>]]

\* The script up to its first await: the table read into `existing`, page 1 asked for.
ScraperStarted(tbl) ==
  [IdleScraper EXCEPT !.pc = "page", !.page = 1, !.existing = StoredIds(tbl),
                      !.store0 = tbl]

\* const results = await Promise.all(batch.map(fetchIncident)): the fetches of
\* the batch at offset i are started.
startBatch(s, i) ==
  LET batch == slice(s.codes, i)
  IN  [s EXCEPT !.pc = "batch", !.i = i,
                !.results = [j \in 1..Len(batch) |-> "pending"],
                !.fetched = s.fetched \o batch]

\* The batch loop at offset i: another batch, or the end of the script.
batchLoop(s, i) ==
  IF i < Len(s.codes) THEN startBatch(s, i) ELSE [s EXCEPT !.pc = "done", !.i = i, !.results = <<>>]

\* The codes of the listing in months of a year from the cutoff on.
ListedCodes(months) ==
  UNION {{months[m].incidents[j] : j \in 1..Len(months[m].incidents)} :
           m \in {m \in 1..Len(months) : months[m].year >= CUTOFF_YEAR}}

(***************************************************************************)
(* Dates.  A Date is the pair of its UTC day (days since 1970-01-01) and   *)
(* the milliseconds into that day.                                         *)
(***************************************************************************)
DAY_MS == 86400000

\* The day number of a civil date; a day past the end of the month runs over
\* into the next month, as in Date.UTC.
DaysFromCivil(y, m, d) ==
  LET yy  == IF m <= 2 THEN y - 1 ELSE y
      era == yy \div 400
      yoe == yy - era * 400
      mp  == (m + 9) % 12
      doy == (153 * mp + 2) \div 5 + d - 1
      doe == yoe * 365 + yoe \div 4 - yoe \div 100 + doy
  IN  era * 146097 + doe - 719468

\* getUTCFullYear(), getUTCMonth() + 1, getUTCDate() of a day number
CivilFromDays(z) ==
  LET zz  == z + 719468
      era == zz \div 146097
      doe == zz - era * 146097
      yoe == (doe - doe \div 1460 + doe \div 36524 - doe \div 146096) \div 365
      doy == doe - (365 * yoe + yoe \div 4 - yoe \div 100)
      mp  == (5 * doy + 2) \div 153
      d   == doy - (153 * mp + 2) \div 5 + 1
      m   == IF mp < 10 THEN mp + 3 ELSE mp - 9
  IN  [y |-> yoe + era * 400 + (IF m <= 2 THEN 1 ELSE 0), m |-> m, d |-> d]

\* getUTCDay(): 0 for Sunday; 1970-01-01 was a Thursday
getUTCDay(day) == (day + 4) % 7

UTC(y, m, d, ms) == [day |-> DaysFromCivil(y, m, d), ms |-> ms]

\* date.setUTCFullYear(y): same month and day of year y
setUTCFullYear(date, y) ==
  LET c == CivilFromDays(date.day)
  IN  [date EXCEPT !.day = DaysFromCivil(y, c.m, c.d)]

Pad2(n) == IF n < 10 THEN "0" \o ToString(n) ELSE ToString(n)

\* The times of day that occur in the model.
TimeText(ms) ==
  CASE ms = 0          -> "00:00:00.000Z"
    [] ms = 32400000   -> "09:00:00.000Z"
    [] ms = 43170000   -> "11:59:30.000Z"
    [] ms = 43200000   -> "12:00:00.000Z"
    [] ms = DAY_MS - 1 -> "23:59:59.999Z"

\* The part of date.toISOString() before its "T".
DateText(date) ==
  LET c == CivilFromDays(date.day)
  IN  ToString(c.y) \o "-" \o Pad2(c.m) \o "-" \o Pad2(c.d)

\* date.toISOString()
toISOString(date) == DateText(date) \o "T" \o TimeText(date.ms)

\* date.toISOString().split("T")[0]
DayKey(date) == DateText(date)

(***************************************************************************)
(* heatmap(): the stored incidents bucketed by UTC day of started_at, and  *)
(* the grid of weeks from the Sunday on or before one year ago to today.   *)
(***************************************************************************)
\* The instants incidents of the model started at.
StartedDates ==
  {UTC(2021, 6, 1, 0),
   UTC(2023, 2, 25, DAY_MS - 1), UTC(2023, 2, 26, 0),
   UTC(2024, 2, 27, 0), UTC(2024, 2, 29, 0), UTC(2024, 2, 29, DAY_MS - 1),
   UTC(2024, 3, 1, 0), UTC(2025, 2, 28, DAY_MS - 1), UTC(2025, 3, 6, 0)}

\* The instants the status scenarios use: 4.5 days, 36 hours, 3 hours and 30
\* seconds before noon of 2 March 2024.
StatusDates ==
  {UTC(2024, 2, 27, 0), UTC(2024, 3, 1, 0), UTC(2024, 3, 2, 32400000),
   UTC(2024, 3, 2, 43170000)}

\* new Date(text) of an ISO timestamp
NewDate(iso) == CHOOSE date \in StartedDates \cup StatusDates : toISOString(date) = iso

Impact == {"critical", "major", "minor", "none"}

impactWeights == [i \in Impact |-> CASE i = "critical" -> 4 [] i = "major" -> 3
                                      [] i = "minor" -> 2 [] i = "none" -> 1]

\* Mutant: an incident of impact "none" weighs nothing.
weightNoneZero(impact) ==
  IF impact = "none" THEN 0
  ELSE IF impact \in DOMAIN impactWeights THEN impactWeights[impact] ELSE 1

\* impactWeights[incident.impact as Impact] || 1
weight(impact) ==
  IF impact \in DOMAIN impactWeights /\ impactWeights[impact] # 0
    THEN impactWeights[impact]
    ELSE 1

\* The row of an incident that started at `date` with the given impact.
Started(id, impact, date) ==
  Row([Incident(id, "b") EXCEPT !.impact = impact, !.started_at = toISOString(date)])

Before(d1, d2) == d1.day < d2.day \/ (d1.day = d2.day /\ d1.ms < d2.ms)

RECURSIVE selectIncidents(_)
\* SELECT * FROM incidents ORDER BY started_at DESC (ISO timestamps in UTC
\* compare as their instants; rows of equal started_at come in some order)
selectIncidents(tbl) ==
  IF tbl = {} THEN <<>>
  ELSE LET r == CHOOSE r \in tbl :
                  \A q \in tbl : ~Before(NewDate(r.started_at), NewDate(q.started_at))
       IN  <<r>> \o selectIncidents(tbl \ {r})

RECURSIVE groupByDay(_, _)
\* for (const incident of incidents) { ... day.severity += ...; day.incidents.push(incident) }
groupByDay(list, dayMap) ==
  IF list = <<>> THEN dayMap
  ELSE LET incident == Head(list)
           dayKey == DayKey(NewDate(incident.started_at))
           day == IF dayKey \in DOMAIN dayMap THEN dayMap[dayKey]
                  ELSE [severity |-> 0, incidents |-> <<>>]
           upd == [severity |-> day.severity + weight(incident.impact),
                   incidents |-> Append(day.incidents, incident)]
       IN  groupByDay(Tail(list),
                      [k \in DOMAIN dayMap \cup {dayKey} |->
                         IF k = dayKey THEN upd ELSE dayMap[k]])

\* currentWeek.push({date, severity, count, incidents})
HeatmapDay(dayKey, dayMap) ==
  IF dayKey \in DOMAIN dayMap
    THEN [date |-> dayKey, severity |-> dayMap[dayKey].severity,
          count |-> Len(dayMap[dayKey].incidents), incidents |-> dayMap[dayKey].incidents]
    ELSE [date |-> dayKey, severity |-> 0, count |-> 0, incidents |-> <<>>]

RECURSIVE fillWeek(_, _, _, _)
\* The iterations of the loop below up to a week of 7 days or the end of the loop.
fillWeek(currentDate, today, dayMap, currentWeek) ==
  IF Len(currentWeek) = 7 \/ ~(currentDate.day <= today.day)
    THEN [week |-> currentWeek, date |-> currentDate]
    ELSE fillWeek([currentDate EXCEPT !.day = currentDate.day + 1], today, dayMap,
                  Append(currentWeek, HeatmapDay(DayKey(currentDate), dayMap)))

RECURSIVE gridLoop(_, _, _, _)
\* while (currentDate <= today) { currentWeek.push(...); if (currentWeek.length === 7)
\* { weeks.push(currentWeek); currentWeek = [] } ... }
\* if (currentWeek.length > 0) weeks.push(currentWeek)
gridLoop(currentDate, today, dayMap, weeks) ==
  IF ~(currentDate.day <= today.day) THEN weeks
  ELSE LET filled == fillWeek(currentDate, today, dayMap, <<>>)
       IN  IF Len(filled.week) = 7
             THEN gridLoop(filled.date, today, dayMap, Append(weeks, filled.week))
             ELSE Append(weeks, filled.week)

Max(S) == CHOOSE n \in S : \A m \in S : m <= n

\* today.setUTCHours(0, 0, 0, 0)
setUTCHours0(date) == [date EXCEPT !.ms = 0]

\* const oneYearAgo = new Date(today); oneYearAgo.setUTCFullYear(today.getUTCFullYear() - 1)
oneYearAgo(today) == setUTCFullYear(today, CivilFromDays(today.day).y - 1)

\* Mutant: the grid starts on the Monday after that Sunday.
startOnMonday(date) == [date EXCEPT !.day = date.day - getUTCDay(date.day) + 1]

\* currentDate.setUTCDate(currentDate.getUTCDate() - currentDate.getUTCDay())
startOnSunday(date) == [date EXCEPT !.day = date.day - getUTCDay(date.day)]

\* Math.max(...Array.from(dayMap.values()).map((d) => d.severity), 1)
maxSeverity(dayMap, weeks) ==
  Max({dayMap[k].severity : k \in DOMAIN dayMap} \cup {1})

\* heatmap() over the table, called at `clock`
heatmap(tbl, clock) ==
  LET list == selectIncidents(tbl)
      dayMap == groupByDay(list, <<>>)
      today == setUTCHours0(clock)
      weeks == gridLoop(startOnSunday(oneYearAgo(today)), today, dayMap, <<>>)
  IN  [dayMap |-> dayMap, incidents |-> list,
       maxSeverity |-> maxSeverity(dayMap, weeks), weeks |-> weeks]

(***************************************************************************)
(* statusInfo(): label and duration of the current status.  getTime()      *)
(* counts the milliseconds from 20 February 2024, which keeps them within  *)
(* the integers of the model; statusInfo uses differences of times only,   *)
(* and the test of a time against 0.                                       *)
(***************************************************************************)
EpochDay == DaysFromCivil(2024, 2, 20)

\* date.getTime()
getTime(date) == (date.day - EpochDay) * DAY_MS + date.ms

\* Math.round(n / k): the nearest integer, halves upwards
Round(n, k) == (2 * n + k) \div (2 * k)

Min(S) == CHOOSE n \in S : \A m \in S : n <= m

\* An open incident, and a resolved one, as rows with ISO timestamps.
Open(id, started, updated) ==
  Row([Incident(id, "a") EXCEPT !.started_at = toISOString(started),
                                !.updated_at = toISOString(updated)])
Closed(id, started, resolved) ==
  Row([Incident(id, "b") EXCEPT !.started_at = toISOString(started),
                                !.updated_at = toISOString(resolved),
                                !.resolved_at = toISOString(resolved)])

Indicators == {"none", "minor", "major", "critical"}

\* null, as a member of the pair sync() returns
NullObject == [null |-> TRUE]

\* The values sync() hands over: null, or the parsed responses.
StatusResponses ==
  {NullObject} \cup {[status |-> [indicator |-> i, description |-> "d"]] : i \in Indicators}
UnresolvedResponses ==
  {NullObject, [incidents |-> <<>>],
   [incidents |-> <<Open("x", UTC(2024, 3, 2, 32400000), UTC(2024, 3, 2, 43170000))>>],
   [incidents |-> <<Open("x", UTC(2024, 3, 1, 0), UTC(2024, 3, 2, 32400000)),
                    Open("y", UTC(2024, 3, 2, 32400000), UTC(2024, 3, 2, 43170000))>>]}

\* status?.status.indicator ?? "none"
indicatorOf(status) == IF status # NullObject THEN status.status.indicator ELSE "none"

labelOf(indicator) ==
  CASE indicator = "critical" -> "Critical Outage"
    [] indicator = "major"    -> "Major Outage"
    [] indicator = "minor"    -> "Minor Outage"
    [] OTHER                  -> "All Systems Operational"

\* unresolved?.incidents, of length 0 when there is none
unresolvedOf(unresolved) == IF unresolved # NullObject THEN unresolved.incidents ELSE <<>>

\* Mutant: an outage counts from the start of its latest unresolved incident.
ongoingSinceLatest(indicator, unresolved, stored, t) ==
  LET list == unresolvedOf(unresolved)
      resolved == {getTime(NewDate(stored[i].resolved_at)) :
                     i \in {i \in 1..Len(stored) : stored[i].resolved_at # Null}}
  IN  IF indicator # "none" /\ Len(list) # 0
        THEN Max({getTime(NewDate(list[i].started_at)) : i \in 1..Len(list)})
      ELSE IF Len(list) # 0
        THEN Max({getTime(NewDate(list[i].updated_at)) : i \in 1..Len(list)})
      ELSE IF Len(stored) # 0
        THEN (IF Max(resolved \cup {0}) # 0 THEN Max(resolved \cup {0}) ELSE t)
      ELSE t

\* const ongoingSince = indicator !== "none" && unresolved?.incidents.length ? Math.min(...)
\*   : unresolved?.incidents.length ? Math.max(...)
\*   : incidents.length ? Math.max(...resolved, 0) || now : now
ongoingSince(indicator, unresolved, stored, t) ==
  LET list == unresolvedOf(unresolved)
      resolved == {getTime(NewDate(stored[i].resolved_at)) :
                     i \in {i \in 1..Len(stored) : stored[i].resolved_at # Null}}
  IN  IF indicator # "none" /\ Len(list) # 0
        THEN Min({getTime(NewDate(list[i].started_at)) : i \in 1..Len(list)})
      ELSE IF Len(list) # 0
        THEN Max({getTime(NewDate(list[i].updated_at)) : i \in 1..Len(list)})
      ELSE IF Len(stored) # 0
        THEN (IF Max(resolved \cup {0}) # 0 THEN Max(resolved \cup {0}) ELSE t)
      ELSE t

MaxOf(a, b) == IF a < b THEN b ELSE a

\* durationMs < 3_600_000 ? `for ${Math.max(1, Math.round(durationMs / 60_000))} min` : ...
durationOf(durationMs) ==
  IF durationMs < 3600000
    THEN "for " \o ToString(MaxOf(1, Round(durationMs, 60000))) \o " min"
  ELSE IF durationMs < DAY_MS
    THEN "for " \o ToString(Round(durationMs, 3600000)) \o " hr"
  ELSE "for " \o ToString(Round(durationMs, DAY_MS)) \o " days"

\* statusInfo({status, unresolved}, {incidents}) at Date.now() = t
statusInfo(status, unresolved, stored, t) ==
  LET indicator == indicatorOf(status)
  IN  [duration |-> durationOf(t - ongoingSince(indicator, unresolved, stored, t)),
       indicator |-> indicator, label |-> labelOf(indicator)]

\* The rendering: nothing computed yet at `clock`, `days` days into the run.
IdleRender ==
  [clock |-> UTC(1970, 1, 1, 0), days |-> 0, called |-> FALSE,
   heatmap |-> [dayMap |-> <<>>, incidents |-> <<>>, maxSeverity |-> 1, weeks |-> <<>>],
   derived |-> FALSE, status |-> NullObject, unresolved |-> NullObject,
   info |-> [duration |-> "", indicator |-> "", label |-> ""]]

(***************************************************************************)
(* Actions on the cache.  A call is in progress while its caller is        *)
(* suspended or its fetch is pending; when both are over its record moves  *)
(* to `last` and its slot is free again.                                   *)
(***************************************************************************)
TickSteps == {1, TTL - 1}

Tick ==
  /\ ticks < MaxTicks
  /\ \E d \in TickSteps : now' = now + d
  /\ ticks' = ticks + 1
  /\ UNCHANGED <<variant, cache, calls, last, incidents, sync, upserts, scraper, render>>

Over(call) == call.pc \in {"returned", "threw"} /\ call.fetch # "pending"

\* Slot c holds `call` after a step of the call.
Place(c, call) ==
  IF Over(call)
    THEN /\ last' = call
         /\ calls' = [calls EXCEPT ![c] = IdleCall]
    ELSE /\ calls' = [calls EXCEPT ![c] = call]
         /\ UNCHANGED last

\* A caller invokes cached(k, fn); it takes the first free slot.
Cached(c, k) ==
  /\ calls[c].pc = "idle"
  /\ \A b \in DOMAIN calls : b < c => calls[b].pc # "idle"
  /\ Place(c, CachedEnter(k, cache, now))
  /\ UNCHANGED <<variant, now, ticks, cache, incidents, sync, upserts, scraper, render>>

\* The table after the fetch of call c has settled with upstream answer r.
SettledTable(c, r) ==
  IF variant = "swr"
    THEN SwrRefreshTable(cache, calls[c].key, FetchFn(r), now)
    ELSE BlockingTable(cache, calls[c].key, FetchFn(r), now)

\* The record of call c after its fetch has settled with upstream answer r.
SettledCall(c, r) ==
  LET out == FetchFn(r)
      call == [calls[c] EXCEPT !.fetch = out.state, !.http = HttpClass(r)]
  IN  IF variant = "swr" THEN call ELSE BlockingResume(call, out)

\* The fetch of call c settles with upstream answer r.
Settle(c, r) ==
  /\ calls[c].fetch = "pending"
  /\ cache' = SettledTable(c, r)
  /\ Place(c, SettledCall(c, r))
  /\ UNCHANGED <<variant, now, ticks, incidents, sync, upserts, scraper, render>>

\* The cold caller of the background-refresh variant resumes after `await refresh`.
Resume(c) ==
  /\ variant = "swr"
  /\ calls[c].pc = "await"
  /\ calls[c].fetch \in {"resolved", "rejected"}
  /\ Place(c, SwrResume(calls[c], cache))
  /\ UNCHANGED <<variant, now, ticks, cache, incidents, sync, upserts, scraper, render>>

CacheKeys == {"status"}

InitCache ==
  /\ variant \in {"swr", "blocking"}
  /\ now = 0
  /\ ticks = 0
  /\ cache = {}
  /\ calls = [c \in 1..MaxCalls |-> IdleCall]
  /\ last = IdleCall
  /\ incidents = {}
  /\ sync = IdleSync
  /\ upserts = <<>>
  /\ scraper = IdleScraper
  /\ render = IdleRender

NextCache ==
  \/ Tick
  \/ \E c \in DOMAIN calls, k \in CacheKeys : Cached(c, k)
  \/ \E c \in DOMAIN calls : \E r \in Responses(calls[c].key) : Settle(c, r)
  \/ \E c \in DOMAIN calls : Resume(c)

SpecCache == InitCache /\ [][NextCache]_vars

(***************************************************************************)
(* The background-refresh variant with the refresh in its two steps: fn()  *)
(* settles, and the reaction fn().then(...) registered on it runs.  The    *)
(* job queue of the runtime runs the reaction of a promise that has        *)
(* resolved, which is the fairness of RefreshWrite; nothing makes an       *)
(* upstream answer arrive.                                                 *)
(***************************************************************************)
\* fn() of call c settles with upstream answer r: resolved, its value waits for
\* the .then reaction; rejected, .catch(() => {}) ends the refresh.
RefreshArrive(c, r) ==
  /\ calls[c].fetch = "pending"
  /\ calls[c].data = NoData
  /\ IF FetchFn(r).state = "resolved"
       THEN /\ calls' = [calls EXCEPT ![c].data = FetchFn(r).data,
                                      ![c].http = HttpClass(r)]
            /\ UNCHANGED <<variant, now, ticks, cache, last, incidents, sync, upserts,
                           scraper, render>>
       ELSE Settle(c, r)

\* (data) => setCache.run(key, JSON.stringify(data), Date.now()) of call c runs.
RefreshWrite(c) ==
  /\ calls[c].fetch = "pending"
  /\ calls[c].data # NoData
  /\ cache' = SwrRefreshTable(cache, calls[c].key, Resolved(calls[c].data), now)
  /\ Place(c, [calls[c] EXCEPT !.fetch = "resolved"])
  /\ UNCHANGED <<variant, now, ticks, incidents, sync, upserts, scraper, render>>

\* A freshness window passes.
RefreshTick ==
  /\ ticks < MaxWindows
  /\ now' = now + TTL
  /\ ticks' = ticks + 1
  /\ UNCHANGED <<variant, cache, calls, last, incidents, sync, upserts, scraper, render>>

\* The upstream answers explored: a network error and the successful ones.
RefreshResponses(k) == {r \in Responses(k) : r.kind = "neterr" \/ r.ok}

InitRefresh ==
  /\ InitCache
  /\ variant = "swr"

NextRefresh ==
  \/ RefreshTick
  \/ \E c \in DOMAIN calls, k \in CacheKeys : Cached(c, k)
  \/ \E c \in DOMAIN calls : \E r \in RefreshResponses(calls[c].key) : RefreshArrive(c, r)
  \/ \E c \in DOMAIN calls : RefreshWrite(c)
  \/ \E c \in DOMAIN calls : Resume(c)

SpecRefresh ==
  /\ InitRefresh
  /\ [][NextRefresh]_vars
  /\ \A c \in 1..MaxCalls : WF_vars(RefreshWrite(c))

(***************************************************************************)
(* Actions of sync().  The three calls of cached() occupy the slots 1..3   *)
(* (status, unresolved, incidents); their records stay in the slots until  *)
(* the next invocation.                                                    *)
(***************************************************************************)
\* The upstream answers explored for the three endpoints of sync().
SyncResponses(k) ==
  {r \in Responses(k) : r.body # Html /\ (k = "unresolved" => r.kind = "neterr" \/ r.ok)
                                       /\ (k = "status" => r.body # JSONstringify("S2"))}

\* A freshness window passes.
SyncTick ==
  /\ ticks < MaxTicks
  /\ now' = now + TTL
  /\ ticks' = ticks + 1
  /\ UNCHANGED <<variant, cache, calls, last, incidents, sync, upserts, scraper, render>>

\* sync() is invoked: the three calls run to their first suspension in turn.
SyncStart ==
  /\ sync.pc # "waiting"
  /\ sync.n < MaxSyncs
  /\ \A c \in DOMAIN calls : calls[c].fetch # "pending"
  /\ calls' = [c \in DOMAIN calls |-> CachedEnter(SyncKeys[c], cache, now)]
  /\ sync' = [IdleSync EXCEPT !.pc = "waiting", !.n = sync.n + 1]
  /\ UNCHANGED <<variant, now, ticks, cache, last, incidents, upserts, scraper, render>>

SyncSettle(c, r) ==
  /\ calls[c].fetch = "pending"
  /\ cache' = SettledTable(c, r)
  /\ calls' = [calls EXCEPT ![c] = SettledCall(c, r)]
  /\ UNCHANGED <<variant, now, ticks, last, incidents, sync, upserts, scraper, render>>

SyncResume(c) ==
  /\ variant = "swr"
  /\ calls[c].pc = "await"
  /\ calls[c].fetch \in {"resolved", "rejected"}
  /\ calls' = [calls EXCEPT ![c] = SwrResume(calls[c], cache)]
  /\ UNCHANGED <<variant, now, ticks, cache, last, incidents, sync, upserts, scraper, render>>

\* Promise.all has settled: the rest of sync() runs.
SyncJoin ==
  /\ sync.pc = "waiting"
  /\ \A c \in DOMAIN calls : calls[c].pc \in {"returned", "threw"}
  /\ LET status == calls[1].ret
         unresolved == calls[2].ret
         result == calls[3].ret
         list == syncIncidents(status, unresolved, result)
     IN  IF \E c \in DOMAIN calls : calls[c].pc = "threw"
           THEN /\ sync' = [sync EXCEPT !.pc = "threw"]
                /\ UNCHANGED incidents
           ELSE IF syncThrows(result)
             THEN /\ sync' = [sync EXCEPT !.pc = "threw", !.result = result]
                  /\ UNCHANGED incidents
             ELSE /\ incidents' = insertAll(incidents, list)
                  /\ sync' = [sync EXCEPT !.pc = "done", !.status = status,
                                          !.unresolved = unresolved, !.result = result,
                                          !.wrote = [i \in 1..Len(list) |-> Row(list[i])]]
  /\ UNCHANGED <<variant, now, ticks, cache, calls, last, upserts, scraper, render>>

InitSync ==
  /\ variant \in {"swr", "blocking"}
  /\ now = 0
  /\ ticks = 0
  /\ cache = {}
  /\ calls = [c \in 1..3 |-> IdleCall]
  /\ last = IdleCall
  /\ incidents = {}
  /\ sync = IdleSync
  /\ upserts = <<>>
  /\ scraper = IdleScraper
  /\ render = IdleRender

NextSync ==
  \/ SyncTick
  \/ SyncStart
  \/ \E c \in DOMAIN calls : \E r \in SyncResponses(calls[c].key) : SyncSettle(c, r)
  \/ \E c \in DOMAIN calls : SyncResume(c)
  \/ SyncJoin

SpecSync == InitSync /\ [][NextSync]_vars

(***************************************************************************)
(* Storage failures: a statement of the SQLite database throws (disk full,  *)
(* database locked) in cached() or in sync().                              *)
(***************************************************************************)
\* The record of call c when its fetch resolved and setCache.run then threw:
\* .catch(() => {}) swallows the exception in the background-refresh variant,
\* the catch block takes it for a failed fetch in the blocking-refresh variant.
WriteFailedCall(c, r) ==
  LET call == [calls[c] EXCEPT !.fetch = "resolved", !.http = HttpClass(r), !.wfail = TRUE]
  IN  IF variant = "swr" THEN call ELSE BlockingCatch(call)

\* The fetch of call c resolves and the write of the cache row throws.
StorageSettle(c, r) ==
  /\ calls[c].fetch = "pending"
  /\ FetchFn(r).state = "resolved"
  /\ calls' = [calls EXCEPT ![c] = WriteFailedCall(c, r)]
  /\ UNCHANGED <<variant, now, ticks, cache, last, incidents, sync, upserts, scraper, render>>

\* Promise.all has settled and the j-th insert.run of the loop throws: the rows
\* before it are written, the exception leaves sync().
StorageJoin(j) ==
  /\ sync.pc = "waiting"
  /\ \A c \in DOMAIN calls : calls[c].pc = "returned"
  /\ LET list == syncIncidents(calls[1].ret, calls[2].ret, calls[3].ret)
     IN  /\ ~syncThrows(calls[3].ret)
         /\ j \in 1..Len(list)
         /\ incidents' = insertAll(incidents, SubSeq(list, 1, j - 1))
         /\ sync' = [sync EXCEPT !.pc = "threw", !.result = calls[3].ret, !.failed = TRUE,
                                 !.wrote = [i \in 1..(j - 1) |-> Row(list[i])]]
  /\ UNCHANGED <<variant, now, ticks, cache, calls, last, upserts, scraper, render>>

NextStorage ==
  \/ NextSync
  \/ \E c \in DOMAIN calls : \E r \in SyncResponses(calls[c].key) : StorageSettle(c, r)
  \/ \E j \in 1..2 : StorageJoin(j)

SpecStorage == InitSync /\ [][NextStorage]_vars

(***************************************************************************)
(* The two insert statements on their own: any sequence of upserts, by     *)
(* sync() and by the scraper, of any incident objects.                     *)
(***************************************************************************)
UpsertSync(incident) ==
  /\ Len(upserts) < MaxUpserts
  /\ incidents' = insert(incidents, incident)
  /\ upserts' = Append(upserts, incident)
  /\ UNCHANGED <<variant, now, ticks, cache, calls, last, sync, scraper, render>>

UpsertScrape(incident) ==
  /\ Len(upserts) < MaxUpserts
  /\ incidents' = insertScrape(incidents, incident)
  /\ upserts' = Append(upserts, incident)
  /\ UNCHANGED <<variant, now, ticks, cache, calls, last, sync, scraper, render>>

InitUpsert ==
  /\ variant = "swr"
  /\ now = 0
  /\ ticks = 0
  /\ cache = {}
  /\ calls = [c \in 1..MaxCalls |-> IdleCall]
  /\ last = IdleCall
  /\ incidents = {}
  /\ sync = IdleSync
  /\ upserts = <<>>
  /\ scraper = IdleScraper
  /\ render = IdleRender

NextUpsert ==
  \/ \E incident \in Incidents : UpsertSync(incident)
  \/ \E incident \in Incidents : UpsertScrape(incident)

SpecUpsert == InitUpsert /\ [][NextUpsert]_vars

(***************************************************************************)
(* Actions of the backfill script.                                         *)
(***************************************************************************)
\* The body of the awaited history page arrives (or its fetch fails).
ScrapePage(html) ==
  /\ scraper.pc = "page"
  /\ LET parsed == parseMonths(html)
         s == [scraper EXCEPT
                 !.seen = Append(scraper.seen, html),
                 !.codes = collect(scraper.codes, parsed.months, scraper.existing),
                 !.listed = scraper.listed \cup ListedCodes(parsed.months)]
     IN  scraper' =
           IF html.kind = "neterr" \/ parsed.threw
             THEN [scraper EXCEPT !.pc = "crashed"]
             ELSE IF scraper.page < Len(PAGES)
               THEN [s EXCEPT !.page = scraper.page + 1]
               ELSE batchLoop([s EXCEPT !.codes = dedup(s.codes, {})], 0)
  /\ UNCHANGED <<variant, now, ticks, cache, calls, last, incidents, sync, upserts, render>>

\* The fetch for the j-th code of the batch settles.
ScrapeDetail(j, answer) ==
  /\ scraper.pc = "batch"
  /\ j \in DOMAIN scraper.results
  /\ scraper.results[j] = "pending"
  /\ scraper' =
       IF fetchIncident(answer) = "rejected"
         THEN [scraper EXCEPT !.pc = "crashed"]
         ELSE [scraper EXCEPT !.results[j] = fetchIncident(answer)]
  /\ UNCHANGED <<variant, now, ticks, cache, calls, last, incidents, sync, upserts, render>>

RECURSIVE insertResults(_, _, _)
\* for (const incident of results) { if (!incident) continue; insert.run(...) }
insertResults(tbl, results, batch) ==
  IF results = <<>> THEN tbl
  ELSE insertResults(CASE Head(results) = "incident" -> insertScrape(tbl, Detail(Head(batch)))
                       [] Head(results) = "alias"    -> insertScrape(tbl, Alias(Head(batch)))
                       [] OTHER                      -> tbl,
                     Tail(results), Tail(batch))

\* Promise.all of the batch has resolved: its results are inserted and the loop goes on.
ScrapeBatch ==
  /\ scraper.pc = "batch"
  /\ \A j \in DOMAIN scraper.results : scraper.results[j] # "pending"
  /\ LET batch == slice(scraper.codes, scraper.i)
         n == Cardinality({j \in DOMAIN scraper.results : scraper.results[j] # "null"})
     IN  /\ incidents' = insertResults(incidents, scraper.results, batch)
         /\ scraper' = batchLoop([scraper EXCEPT
                                    !.inserted = scraper.inserted + n,
                                    !.got = scraper.got \cup
                                      {<<batch[j], scraper.results[j]>> : j \in DOMAIN batch}],
                                 scraper.i + BATCH)
  /\ UNCHANGED <<variant, now, ticks, cache, calls, last, sync, upserts, render>>

\* The stores the script may find: what earlier runs and sync() left.
InitialStores == {insertAll({}, list) : list \in {<<>>, <<Detail("B")>>, <<Detail("B"), Detail("E")>>}}

InitScrape ==
  /\ variant = "swr"
  /\ now = 0
  /\ ticks = 0
  /\ cache = {}
  /\ calls = [c \in 1..MaxCalls |-> IdleCall]
  /\ last = IdleCall
  /\ incidents \in InitialStores
  /\ sync = IdleSync
  /\ upserts = <<>>
  /\ scraper = ScraperStarted(incidents)
  /\ render = IdleRender

NextScrape ==
  \/ \E html \in PageAnswers : ScrapePage(html)
  \/ \E j \in 1..BATCH, answer \in DetailAnswers : ScrapeDetail(j, answer)
  \/ ScrapeBatch

SpecScrape == InitScrape /\ [][NextScrape]_vars

(***************************************************************************)
(* The script run twice: once it has ended, it is started again on the     *)
(* table it left, and the history pages answer what they answered before.  *)
(***************************************************************************)
\* The page bodies of the two runs: a listing, or a network error that ends the
\* first run before it completes.
RerunPages == {html \in PageAnswers : html.kind \in {"listing", "neterr"}}

\* The first run reads a history page.
FirstPage(html) ==
  /\ scraper.run = 1
  /\ ScrapePage(html)

\* A fetch of the first run settles.
FirstDetail(j, answer) ==
  /\ scraper.run = 1
  /\ ScrapeDetail(j, answer)

\* The script is started again: `existing` is read from the table the first run left.
ScrapeRerun ==
  /\ scraper.pc = "done"
  /\ scraper.run = 1
  /\ scraper' = [ScraperStarted(incidents) EXCEPT
                   !.run = 2,
                   !.prev = [seen |-> scraper.seen, got |-> scraper.got,
                             fetched |-> scraper.fetched]]
  /\ UNCHANGED <<variant, now, ticks, cache, calls, last, incidents, sync, upserts, render>>

\* The rerun reads a history page: the body the first run read.
RerunPage ==
  /\ scraper.run = 2
  /\ scraper.pc = "page"
  /\ ScrapePage(scraper.prev.seen[scraper.page])

\* A fetch of the rerun settles: the details endpoint answers for the code
\* what it answered in the first run.  Promise.all keeps the results by
\* position, so the order of settling does not show in what the script does
\* next: the fetches of the rerun are settled in the order of the batch.
RerunDetail(j, answer) ==
  /\ scraper.run = 2
  /\ scraper.pc = "batch"
  /\ j \in DOMAIN scraper.results
  /\ \A k \in 1..(j - 1) : scraper.results[k] # "pending"
  /\ <<scraper.codes[scraper.i + j], fetchIncident(answer)>> \in scraper.prev.got
  /\ ScrapeDetail(j, answer)

NextRerun ==
  \/ \E html \in RerunPages : FirstPage(html)
  \/ \E j \in 1..BATCH, answer \in DetailAnswers : FirstDetail(j, answer)
  \/ ScrapeBatch
  \/ ScrapeRerun
  \/ RerunPage
  \/ \E j \in 1..BATCH, answer \in DetailAnswers : RerunDetail(j, answer)

SpecRerun == InitScrape /\ [][NextRerun]_vars

(***************************************************************************)
(* The page is rendered: heatmap() over the stored incidents, on some day. *)
(***************************************************************************)
\* The moments the run may start at.
Clocks == {UTC(2024, 2, 26, 0), UTC(2025, 6, 10, DAY_MS - 1)}

\* The incidents tables heatmap() may find.
HeatmapStores ==
  {{},
   {Started("x", "critical", UTC(2024, 2, 29, 0)),
    Started("y", "minor", UTC(2024, 2, 29, DAY_MS - 1)),
    Started("z", "critical", UTC(2024, 2, 29, 0))},
   {Started("x", "critical", UTC(2021, 6, 1, 0)),
    Started("y", "minor", UTC(2024, 2, 27, 0))},
   {Started("x", "major", UTC(2023, 2, 25, DAY_MS - 1)),
    Started("y", "none", UTC(2023, 2, 26, 0))},
   {Started("x", "major", UTC(2025, 3, 6, 0)),
    Started("y", "none", UTC(2024, 3, 1, 0)),
    Started("z", "critical", UTC(2025, 2, 28, DAY_MS - 1))}}

\* A day passes.
ClockDay ==
  /\ render.days < MaxDays
  /\ render' = [IdleRender EXCEPT !.clock = [render.clock EXCEPT !.day = render.clock.day + 1],
                                  !.days = render.days + 1]
  /\ UNCHANGED <<variant, now, ticks, cache, calls, last, incidents, sync, upserts, scraper>>

\* heatmap() is called.
Heatmap ==
  /\ ~render.called
  /\ render' = [render EXCEPT !.called = TRUE, !.heatmap = heatmap(incidents, render.clock)]
  /\ UNCHANGED <<variant, now, ticks, cache, calls, last, incidents, sync, upserts, scraper>>

InitHeatmap ==
  /\ variant = "swr"
  /\ now = 0
  /\ ticks = 0
  /\ cache = {}
  /\ calls = [c \in 1..MaxCalls |-> IdleCall]
  /\ last = IdleCall
  /\ incidents \in HeatmapStores
  /\ sync = IdleSync
  /\ upserts = <<>>
  /\ scraper = IdleScraper
  /\ render \in {[IdleRender EXCEPT !.clock = c] : c \in Clocks}

NextHeatmap == ClockDay \/ Heatmap

SpecHeatmap == InitHeatmap /\ [][NextHeatmap]_vars

(***************************************************************************)
(* The status line of the page: statusInfo(await sync(), heatmap()).        *)
(***************************************************************************)
StatusClocks == {UTC(2024, 3, 2, 43200000), UTC(2024, 3, 3, 0)}

\* The incidents tables the status line may find.
StatusStores ==
  {{},
   {Closed("x", UTC(2024, 2, 27, 0), UTC(2024, 3, 2, 32400000))},
   {Closed("x", UTC(2024, 2, 27, 0), UTC(2024, 2, 27, 0)),
    Closed("y", UTC(2024, 2, 27, 0), UTC(2024, 3, 1, 0))},
   {Open("x", UTC(2024, 3, 1, 0), UTC(2024, 3, 2, 32400000))},
   {Open("x", UTC(2024, 3, 2, 32400000), UTC(2024, 3, 2, 43170000)),
    Closed("y", UTC(2024, 2, 27, 0), UTC(2024, 3, 2, 32400000))}}

\* statusInfo() is called with what sync() returned and the result of heatmap().
StatusInfo(status, unresolved) ==
  /\ render.called
  /\ ~render.derived
  /\ render' = [render EXCEPT
                  !.derived = TRUE, !.status = status, !.unresolved = unresolved,
                  !.info = statusInfo(status, unresolved, render.heatmap.incidents,
                                      getTime(render.clock))]
  /\ UNCHANGED <<variant, now, ticks, cache, calls, last, incidents, sync, upserts, scraper>>

InitStatus ==
  /\ variant = "swr"
  /\ now = 0
  /\ ticks = 0
  /\ cache = {}
  /\ calls = [c \in 1..MaxCalls |-> IdleCall]
  /\ last = IdleCall
  /\ incidents \in StatusStores
  /\ sync = IdleSync
  /\ upserts = <<>>
  /\ scraper = IdleScraper
  /\ render \in {[IdleRender EXCEPT !.clock = c] : c \in StatusClocks}

NextStatus ==
  \/ Heatmap
  \/ \E status \in StatusResponses, unresolved \in UnresolvedResponses :
       StatusInfo(status, unresolved)

SpecStatus == InitStatus /\ [][NextStatus]_vars

(***************************************************************************)
(* Properties of the cache (specification SpecCache).                      *)
(***************************************************************************)
Records == {calls[c] : c \in DOMAIN calls} \cup {last}

\* The record of the call of slot c after a step: in its slot, or in `last`
\* when the step completed the call.
After(c) == IF calls'[c].pc = "idle" THEN last' ELSE calls'[c]

\* C1: a call that found an entry for its key and whose fetch function failed
\* has returned the value of that entry, and did not throw (both variants).
C1_CacheResilience ==
  \A call \in Records :
    (call.hadRow /\ call.fetch = "rejected") =>
      /\ call.pc = "returned"
      /\ IsJSON(call.value)
      /\ call.ret = JSONparse(call.value)

C1_Witness ==
  \E call \in Records :
    /\ call.hadRow /\ call.fetch = "rejected" /\ call.pc = "returned"
    /\ call.http \in {"neterr", "notok"}

\* C2 as stated: a call that found no entry and whose fetch function failed
\* resolves to null.
C2_ColdFailureNull ==
  \A call \in Records :
    (~call.hadRow /\ call.fetch = "rejected" /\ call.pc \in {"returned", "threw"}) =>
      (call.pc = "returned" /\ call.ret = Null)

\* C2, amended: when a call that found no entry completes after its fetch
\* function failed, it does not throw; the blocking variant resolves to null,
\* the background-refresh variant to null when the table still has no entry for
\* the key and otherwise to the value of the entry an overlapping call stored;
\* and no step of the failing call writes the table.
C2_ColdFailure ==
  [][\A c \in DOMAIN calls :
       /\ (calls[c].pc = "await" /\ ~calls[c].hadRow /\ calls'[c].pc = "idle"
             /\ last'.fetch = "rejected") =>
            /\ last'.pc = "returned"
            /\ cache' = cache
            /\ last'.ret =
                 IF variant = "blocking" \/ getCache(cache, calls[c].key) = NoRow
                   THEN Null
                   ELSE JSONparse(getCache(cache, calls[c].key).value)
       /\ (calls[c].fetch = "pending" /\ ~calls[c].hadRow
             /\ After(c).fetch = "rejected") => cache' = cache]_vars

C2_Witness ==
  /\ ~last.hadRow /\ last.fetch = "rejected" /\ last.pc = "returned" /\ last.ret = Null
  /\ getCache(cache, last.key) = NoRow

\* C3: a call made less than TTL after the fetched_at of the entry of its key
\* returns the value of that entry and does not invoke the fetch function; the
\* fetch function is invoked only by a call that found no entry or an entry
\* of age TTL or more.
C3_CacheFreshness ==
  \A call \in Records :
    /\ call.within =>
         /\ call.fetch = "none"
         /\ call.pc = "returned"
         /\ IsJSON(call.value) /\ call.ret = JSONparse(call.value)
    /\ call.fetch # "none" => (~call.hadRow \/ ~call.within)

C3_Witness ==
  /\ last.within /\ last.pc = "returned" /\ last.fetch = "none"
  /\ \E c \in DOMAIN calls : calls[c].hadRow /\ calls[c].fetch = "pending"

\* C4: the table never holds two rows with the same key, and a step of a call
\* in which its fetch function fails leaves the table as it was.
C4_CacheEntryInvariant ==
  /\ [](\A k \in Keys : Cardinality({r \in cache : r.key = k}) <= 1)
  /\ [][\A c \in DOMAIN calls :
          (calls[c].fetch = "pending" /\ After(c).fetch = "rejected") => cache' = cache]_vars

C4_Witness ==
  /\ last.hadRow /\ last.fetch = "rejected"
  /\ getCache(cache, last.key) # NoRow
  /\ getCache(cache, last.key).value = last.value

\* C5: in the background-refresh variant a call that found an entry, fresh or
\* stale, is never suspended and returns that entry's value whatever becomes
\* of its fetch; a call that found no entry returns only after its fetch has
\* settled, and after a successful fetch the table holds an entry for the key.
C5_SynchronousMiss ==
  variant = "swr" =>
    \A call \in Records :
      /\ (call.hadRow /\ call.pc # "idle") =>
           /\ call.pc = "returned"
           /\ IsJSON(call.value) /\ call.ret = JSONparse(call.value)
      /\ (~call.hadRow /\ call.pc = "returned") =>
           /\ call.fetch \in {"resolved", "rejected"}
           /\ call.fetch = "resolved" => getCache(cache, call.key) # NoRow

C5_Witness ==
  /\ variant = "swr"
  /\ \E c \in DOMAIN calls :
       calls[c].hadRow /\ calls[c].pc = "returned" /\ calls[c].fetch = "pending"
  /\ ~last.hadRow /\ last.pc = "returned" /\ last.fetch = "resolved"

\* C9 as stated: a non-success response is a failure of the fetch function, and
\* the body of a non-success response is never stored as an entry's value.
C9_NonSuccessIsFailure ==
  /\ \A call \in Records : call.http = "notok" => call.fetch = "rejected"
  /\ \A r \in cache : r.value # JSONstringify(ErrBody)

(***************************************************************************)
(* Properties of the incidents table (specification SpecUpsert).           *)
(***************************************************************************)
\* The positions of the upserts of incident id.
UpsertsOf(id) == {i \in 1..Len(upserts) : upserts[i].id = id}

\* The most recent upsert of incident id.
LatestUpsert(id) == upserts[CHOOSE i \in UpsertsOf(id) : \A j \in UpsertsOf(id) : j <= i]

NineFields ==
  {"id", "name", "status", "created_at", "updated_at", "resolved_at", "impact",
   "shortlink", "started_at"}

\* C6: after any sequence of upserts the table holds, for every id upserted,
\* exactly one row, whose nine fields are those of the most recent upsert of that
\* id, and no row for any other id; and an upsert of the record upserted just
\* before leaves the table as it was.
C6_UpsertIdempotence ==
  /\ [](\A id \in Ids :
          LET rows == {r \in incidents : r.id = id}
          IN  IF UpsertsOf(id) = {}
                THEN rows = {}
                ELSE /\ Cardinality(rows) = 1
                     /\ \A r \in rows :
                          /\ DOMAIN r = NineFields
                          /\ \A f \in NineFields : r[f] = LatestUpsert(id)[f])
  /\ [][(Len(upserts) >= 1 /\ Len(upserts') = Len(upserts) + 1
           /\ upserts'[Len(upserts')] = upserts[Len(upserts)]) => incidents' = incidents]_vars

C6_Witness ==
  /\ Len(upserts) >= 3
  /\ upserts[1].id = upserts[3].id /\ upserts[1] # upserts[2] /\ upserts[2] = upserts[3]
  /\ upserts[3].resolved_at = Null /\ upserts[1].resolved_at # Null

(***************************************************************************)
(* Properties of sync() (specification SpecSync).                          *)
(***************************************************************************)
\* C7 as stated: an invocation of sync() that wrote rows fetched the recent
\* incidents successfully in that invocation.
C7_WritesOnlyOnFetch ==
  (sync.pc = "done" /\ sync.wrote # <<>>) => calls[3].fetch = "resolved"

\* C7, amended: when Promise.all settles, sync() writes rows exactly when
\* cached("incidents") has resolved to a value with an incidents list, fetched
\* in this invocation or served from the cache entry: every listed incident is
\* then in the table with its nine fields and the rows of other ids are kept;
\* otherwise (null, or no list) the table is left as it was; whatever
\* cached("status") and cached("unresolved") resolved to.
C7_SyncStoreEffect ==
  [][(sync.pc = "waiting" /\ sync'.pc # "waiting") =>
       LET result == calls[3].ret
           list == IncidentsOf(result)
           ids == {list[i].id : i \in 1..Len(list)}
       IN  IF HasIncidents(result)
             THEN /\ sync'.pc = "done"
                  /\ Len(sync'.wrote) = Len(list)
                  /\ \A i \in 1..Len(list) :
                       /\ sync'.wrote[i] = Row(list[i])
                       /\ Row(list[i]) \in incidents'
                  /\ \A r \in incidents : r.id \notin ids => r \in incidents'
                  /\ \A r \in incidents' : r.id \notin ids => r \in incidents
             ELSE /\ incidents' = incidents
                  /\ sync'.wrote = <<>>]_vars

C7_Witness ==
  /\ sync.pc = "done" /\ sync.status = Null /\ sync.unresolved = Null
  /\ sync.wrote # <<>> /\ calls[3].fetch \in {"none", "rejected"}
  /\ \A i \in 1..Len(sync.wrote) : sync.wrote[i] \in incidents

\* C8 as stated: sync() never throws, and returns a pair whose members are each
\* the data of their endpoint or null.
C8_SyncBestEffort ==
  /\ sync.pc # "threw"
  /\ sync.pc = "done" =>
       /\ sync.status \in Payloads("status") \cup {Null}
       /\ sync.unresolved \in Payloads("unresolved") \cup {Null}

(***************************************************************************)
(* Properties of the backfill script (specification SpecScrape).           *)
(***************************************************************************)
Range(seq) == {seq[j] : j \in 1..Len(seq)}

NoDuplicates(seq) == \A j, k \in 1..Len(seq) : seq[j] = seq[k] => j = k

\* C10: once the pages are read, the candidates are exactly the codes listed in
\* a month of a year from the cutoff on that were not ids of the store at the
\* start, each once; the details endpoint is only ever called for candidates,
\* once each, and a run that reaches its end has called it for every one of them.
C10_BackfillFetchSet ==
  LET expected == scraper.listed \ {r.id : r \in scraper.store0}
  IN  /\ NoDuplicates(scraper.fetched)
      /\ Range(scraper.fetched) \subseteq expected
      /\ scraper.pc \in {"batch", "done"} =>
           /\ NoDuplicates(scraper.codes)
           /\ Range(scraper.codes) = expected
      /\ scraper.pc = "done" => Range(scraper.fetched) = expected

\* The pages list A, B, A, C in a month of 2025 and B is stored: A and C are
\* fetched, each once.
C10_Witness ==
  /\ scraper.pc = "done"
  /\ {r.id : r \in scraper.store0} = {"B"}
  /\ scraper.listed = {"A", "B", "C"}
  /\ scraper.fetched = <<"A", "C">>

\* The detail fetches in flight.
InFlight == {j \in DOMAIN scraper.results : scraper.results[j] = "pending"}

\* C11: at most BATCH detail fetches are in flight at any time, and detail
\* fetches are started (at most BATCH at once) only when no fetch of the batch
\* before is in flight and every incident that batch returned is in the table.
C11_BoundedConcurrency ==
  /\ [](Cardinality(InFlight) <= BATCH)
  /\ [][Len(scraper'.fetched) > Len(scraper.fetched) =>
          /\ InFlight = {}
          /\ Len(scraper'.fetched) - Len(scraper.fetched) <= BATCH
          /\ \A j \in DOMAIN scraper.results :
               scraper.results[j] = "incident" =>
                 Row(Detail(scraper.codes[scraper.i + j])) \in incidents']_vars

\* The second batch is in flight, the five incidents of the first are stored.
C11_Witness ==
  /\ scraper.pc = "batch" /\ scraper.i = BATCH /\ Len(scraper.codes) > BATCH
  /\ InFlight = DOMAIN scraper.results /\ InFlight # {}
  /\ \A j \in 1..BATCH : Row(Detail(scraper.codes[j])) \in incidents

\* C12 as stated: a failed detail fetch does not abort the job.
C12_DetailFailureSkipped ==
  [][scraper.pc = "batch" => scraper'.pc # "crashed"]_vars

\* C13 as stated: a history page that cannot be fetched or parsed does not
\* abort the job.
C13_PageFailureSkipped ==
  [][scraper.pc = "page" => scraper'.pc # "crashed"]_vars

(***************************************************************************)
(* Properties of heatmap() (specification SpecHeatmap).                    *)
(***************************************************************************)
\* The days of the grid, in order.
RECURSIVE Flatten(_)
Flatten(weeks) == IF weeks = <<>> THEN <<>> ELSE Head(weeks) \o Flatten(Tail(weeks))

GridToday == render.clock.day
GridYearAgo == oneYearAgo(setUTCHours0(render.clock)).day
LeadDays == getUTCDay(GridYearAgo)
GridStart == GridYearAgo - LeadDays
CeilDiv(n, k) == (n + k - 1) \div k

\* The grid lists every day from the computed start through today once, in order.
GridCoversDays ==
  LET days == Flatten(render.heatmap.weeks)
  IN  /\ Len(days) = GridToday - GridStart + 1
      /\ \A i \in 1..Len(days) : days[i].date = DayKey([day |-> GridStart + i - 1, ms |-> 0])

\* C14 as stated: ceil((365 + leadDays) / 7) weeks of exactly 7 days each that
\* list every day from the computed start through today.
C14_GridCompleteness ==
  render.called =>
    /\ Len(render.heatmap.weeks) = CeilDiv(365 + LeadDays, 7)
    /\ \A w \in DOMAIN render.heatmap.weeks : Len(render.heatmap.weeks[w]) = 7
    /\ GridCoversDays

\* C14, amended: the grid lists every UTC day from the computed start through
\* today once, in ascending order: n = leadDays + 366 days, or leadDays + 367
\* when a 29 February lies between one year ago and today, in ceil(n / 7)
\* weeks, each of 7 days but the last, which holds the days left over.
C14_GridWindow ==
  render.called =>
    LET weeks == render.heatmap.weeks
        n == GridToday - GridStart + 1
    IN  /\ n \in {LeadDays + 366, LeadDays + 367}
        /\ Len(weeks) = CeilDiv(n, 7)
        /\ \A w \in 1..(Len(weeks) - 1) : Len(weeks[w]) = 7
        /\ Len(weeks[Len(weeks)]) = n - 7 * (Len(weeks) - 1)
        /\ weeks[1][1].date = DayKey([day |-> GridStart, ms |-> 0])
        /\ getUTCDay(GridStart) = 0
        /\ GridCoversDays

\* Today is 29 February: one year ago is 1 March, and the last week is partial.
C14_Witness ==
  /\ render.called
  /\ DayKey(render.clock) = "2024-02-29"
  /\ Len(render.heatmap.weeks) = 53
  /\ Len(render.heatmap.weeks[53]) = 5
  /\ render.heatmap.weeks[1][1].date = "2023-02-26"
  /\ render.heatmap.weeks[53][5].date = "2024-02-29"

\* C15 as stated: maxSeverity is the largest severity of a day of the grid, or
\* 1 if that is larger.
C15_MaxSeverityOfWindow ==
  render.called =>
    render.heatmap.maxSeverity =
      Max({c.severity : c \in {Flatten(render.heatmap.weeks)[i] :
                                 i \in 1..Len(Flatten(render.heatmap.weeks))}} \cup {1})

\* The weights of the impacts.
ImpactWeight(impact) ==
  CASE impact = "critical" -> 4 [] impact = "major" -> 3
    [] impact = "minor" -> 2 [] impact = "none" -> 1

RECURSIVE SumOfWeights(_)
SumOfWeights(rows) ==
  IF rows = {} THEN 0
  ELSE LET r == CHOOSE r \in rows : TRUE
       IN  ImpactWeight(r.impact) + SumOfWeights(rows \ {r})

\* C16: every day of the grid carries the sum of the weights, the number and
\* the list of exactly the stored incidents whose started_at has that UTC date
\* (0, 0 and [] on a day without one).
C16_SeverityAggregation ==
  render.called =>
    LET days == Flatten(render.heatmap.weeks)
    IN  \A i \in 1..Len(days) :
          LET rows == {r \in incidents :
                         \E ms \in {0, DAY_MS - 1} :
                           r.started_at = days[i].date \o "T" \o TimeText(ms)}
          IN  /\ days[i].severity = SumOfWeights(rows)
              /\ days[i].count = Cardinality(rows)
              /\ Len(days[i].incidents) = Cardinality(rows)
              /\ {days[i].incidents[j] : j \in 1..Len(days[i].incidents)} = rows

\* Impacts critical, minor and critical on 29 February give severity 10.
C16_Witness ==
  /\ render.called
  /\ \E w \in DOMAIN render.heatmap.weeks : \E d \in DOMAIN render.heatmap.weeks[w] :
       LET day == render.heatmap.weeks[w][d]
       IN  /\ day.date = "2024-02-29" /\ day.severity = 10 /\ day.count = 3
           /\ {day.incidents[j].impact : j \in 1..3} = {"critical", "minor"}
  /\ \E w \in DOMAIN render.heatmap.weeks : \E d \in DOMAIN render.heatmap.weeks[w] :
       LET day == render.heatmap.weeks[w][d]
       IN  day.severity = 0 /\ day.count = 0 /\ day.incidents = <<>>

(***************************************************************************)
(* Properties of statusInfo() (specification SpecStatus).                  *)
(***************************************************************************)
\* The times of the field of the listed incidents that have it.
TimesOf(list, field) ==
  {getTime(NewDate(list[i][field])) : i \in {i \in 1..Len(list) : list[i][field] # Null}}

\* C17: the duration counts from the earliest started_at of the unresolved
\* incidents if the indicator is not "none" and there are any; else from the
\* latest updated_at of the unresolved incidents if there are any; else from
\* the latest resolved_at of the stored incidents if one has a resolved_at;
\* else from now; the indicator is "none" when the live status is null.
C17_AnchorPriority ==
  render.derived =>
    LET t == getTime(render.clock)
        indicator == IF render.status = NullObject THEN "none"
                     ELSE render.status.status.indicator
        open == IF render.unresolved = NullObject THEN <<>> ELSE render.unresolved.incidents
        stored == render.heatmap.incidents
        anchors ==
          IF indicator # "none" /\ open # <<>>
            THEN {a \in TimesOf(open, "started_at") :
                    \A b \in TimesOf(open, "started_at") : a <= b}
          ELSE IF open # <<>>
            THEN {a \in TimesOf(open, "updated_at") :
                    \A b \in TimesOf(open, "updated_at") : b <= a}
          ELSE IF TimesOf(stored, "resolved_at") # {}
            THEN {a \in TimesOf(stored, "resolved_at") :
                    \A b \in TimesOf(stored, "resolved_at") : b <= a}
          ELSE {t}
    IN  /\ render.info.indicator = indicator
        /\ \E a \in anchors : render.info.duration = durationOf(t - a)
        /\ {r \in incidents : TRUE} = {stored[i] : i \in 1..Len(stored)}

\* Indicator "major" and one unresolved incident started 3 hours before now.
C17_Witness ==
  /\ render.derived
  /\ render.status # NullObject /\ render.status.status.indicator = "major"
  /\ render.unresolved # NullObject /\ Len(render.unresolved.incidents) = 1
  /\ getTime(render.clock)
       - getTime(NewDate(render.unresolved.incidents[1].started_at)) = 3 * 3600000
  /\ render.info.label = "Major Outage"
  /\ render.info.duration = "for 3 hr"

(***************************************************************************)
(* Properties of storage failures (specification SpecStorage).             *)
(***************************************************************************)
\* C18 as stated: a call of cached() whose write of the cache row threw does not
\* return as if it had succeeded, and a sync() whose insert threw throws.
C18_StorageFailureSurfaces ==
  /\ \A c \in DOMAIN calls : calls[c].wfail => calls[c].pc # "returned"
  /\ sync.failed => sync.pc = "threw"

(***************************************************************************)
(* Order of the upserts (specification SpecUpsert).                        *)
(***************************************************************************)
\* The orders the upserts issued so far could have been executed in.
Orders == Permutations(1..Len(upserts))

\* The table after the upserts issued so far, executed in order p.
Played(p) == insertAll({}, [i \in 1..Len(upserts) |-> upserts[p[i]]])

\* The rows of the upserts that come last for their id in order p.
LastRows(p) ==
  {Row(upserts[p[i]]) : i \in {i \in 1..Len(upserts) :
                                 \A j \in 1..Len(upserts) :
                                   upserts[p[j]].id = upserts[p[i]].id => j <= i}}

\* C19 as stated: the upserts issued leave the table in the same state in
\* whatever order they are executed.
C19_OrderIndependence == \A p \in Orders : Played(p) = incidents

\* C19, amended: in whatever order the upserts are executed the table ends
\* with, for each id, the row of the upsert executed last for that id; all
\* orders give the same table when no two upserts of one id differ.
C19_LastWriteWins ==
  /\ \A p \in Orders : Played(p) = LastRows(p)
  /\ incidents = LastRows([i \in 1..Len(upserts) |-> i])
  /\ (\A i, j \in 1..Len(upserts) : upserts[i].id = upserts[j].id => upserts[i] = upserts[j])
       => \A p \in Orders : Played(p) = incidents

\* Two different records of one id and a record of another id: the rows of
\* the other id agree in every order, the row of the first depends on it.
C19_Witness ==
  /\ Len(upserts) = 3
  /\ upserts[1].id = upserts[2].id /\ upserts[1] # upserts[2]
  /\ upserts[3].id # upserts[1].id
  /\ \E p \in Orders : Played(p) # incidents
  /\ \A p \in Orders : Row(upserts[3]) \in Played(p)

(***************************************************************************)
(* Overlapping refreshes (specification SpecCache).                        *)
(***************************************************************************)
\* A call that found a stale entry.
Stale(call) == call.hadRow /\ ~call.within

\* C20: in the background-refresh variant every call that found a stale entry
\* has returned the value of that entry, whatever becomes of the refreshes; when
\* the refresh of such a call succeeds, the table holds one row for the key,
\* with the value that refresh fetched and the time of its write, whatever the
\* overlapping refreshes wrote before; when it fails, the table is left as it was.
C20_OverlappingRefreshes ==
  /\ [](variant = "swr" =>
          \A call \in Records :
            Stale(call) =>
              /\ call.pc = "returned"
              /\ call.fetch # "none"
              /\ call.ret = JSONparse(call.value))
  /\ [][variant = "swr" =>
          \A c \in DOMAIN calls :
            (Stale(calls[c]) /\ calls[c].fetch = "pending" /\ After(c).fetch # "pending") =>
              IF After(c).fetch = "resolved"
                THEN \E r \in Responses(calls[c].key) :
                       /\ FetchFn(r).state = "resolved"
                       /\ {row \in cache' : row.key = calls[c].key} =
                            {[key |-> calls[c].key,
                              value |-> JSONstringify(FetchFn(r).data),
                              fetched_at |-> now]}
                ELSE cache' = cache]_vars

\* Two calls found the same stale entry; the refresh of one has replaced it,
\* the refresh of the other is still in flight.
C20_Witness ==
  /\ variant = "swr"
  /\ Stale(last) /\ last.fetch = "resolved" /\ last.pc = "returned"
  /\ \E c \in DOMAIN calls :
       /\ Stale(calls[c]) /\ calls[c].fetch = "pending"
       /\ calls[c].key = last.key /\ calls[c].value = last.value
       /\ getCache(cache, last.key).value # last.value

\* C21: when the first run ended with every candidate's fetch returning the
\* incident object of its code, the rerun against the same page bodies and the
\* table the first run left collects no code, calls fetchIncident for none,
\* inserts nothing and leaves the incidents table as it found it.
C21_RerunNoRedundantWork ==
  (scraper.run = 2 /\ \A r \in scraper.prev.got : r[2] = "incident") =>
    /\ scraper.pc \in {"page", "done"}
    /\ scraper.codes = <<>>
    /\ scraper.fetched = <<>>
    /\ scraper.inserted = 0
    /\ incidents = scraper.store0
    /\ Range(scraper.prev.fetched) \subseteq scraper.existing

\* The rerun has ended after a first run that fetched and stored three incidents.
C21_Witness ==
  /\ scraper.run = 2
  /\ scraper.pc = "done"
  /\ scraper.seen = scraper.prev.seen
  /\ {r[2] : r \in scraper.prev.got} = {"incident"}
  /\ Len(scraper.prev.fetched) = 3
  /\ scraper.fetched = <<>>
  /\ incidents = scraper.store0

\* C22: in the background-refresh variant, once the fetch of a call that found
\* a stale entry has resolved with a value, the entry of the key eventually
\* holds that value; no write to an entry moves its fetched_at back; and a call
\* made while the entry is within TTL of its fetched_at returns the value the
\* entry holds, the one the last refresh wrote, and starts no fetch.
C22_RevalidationTakesEffect ==
  /\ \A k \in CacheKeys : \A v \in Payloads(k) :
       (\E c \in DOMAIN calls :
          Stale(calls[c]) /\ calls[c].key = k /\ calls[c].fetch = "pending"
                          /\ calls[c].data = v)
         ~> (getCache(cache, k) # NoRow /\ getCache(cache, k).value = JSONstringify(v))
  /\ [][\A k \in CacheKeys :
          getCache(cache, k) # NoRow =>
            /\ getCache(cache', k) # NoRow
            /\ getCache(cache', k).fetched_at >= getCache(cache, k).fetched_at]_vars
  /\ [][\A k \in CacheKeys :
          (calls' = calls /\ last' # last /\ last'.key = k /\ last'.within) =>
            /\ now < getCache(cache, k).fetched_at + TTL
            /\ last'.pc = "returned"
            /\ last'.ret = JSONparse(getCache(cache, k).value)
            /\ last'.fetch = "none"
            /\ cache' = cache]_vars

\* A call has returned "S2" from an entry within TTL, while a call that found
\* the entry stale with "S1" in it still waits for its fetch: a refresh wrote "S2".
C22_Witness ==
  /\ last.within /\ last.pc = "returned" /\ last.ret = "S2"
  /\ getCache(cache, last.key).value = JSONstringify("S2")
  /\ \E c \in DOMAIN calls :
       /\ Stale(calls[c]) /\ calls[c].fetch = "pending" /\ calls[c].key = last.key
       /\ calls[c].value = JSONstringify("S1")

====
